---- MODULE Spec2Model ----
(***************************************************************************)
(* A model of lizzy/lystra, a "now playing" reporter for Waybar.           *)
(*                                                                         *)
(* The repository holds two generations of the signal handling:            *)
(*   - src/src/main.rs: the binary's two signal closures (PropertiesChanged *)
(*     and NameOwnerChanged) with the helper functions they call;          *)
(*   - src/src/message.rs: the later library functions                     *)
(*     (handle_valid_mediaplayer_signal, should_toggle_playback,           *)
(*     toggle_playback_if_needed, query_id with glob matching, ...).       *)
(* Both are modelled; definitions from main.rs whose name also exists in   *)
(* message.rs carry the prefix main_.                                      *)
(*                                                                         *)
(* Text that the code inspects character by character (bus names, the      *)
(* --mediaplayer selector) is a sequence of one-character strings, except  *)
(* that the namespace prefix "org.mpris.MediaPlayer2." is one element of   *)
(* such a sequence: no selector of the model overlaps it.  Text the code   *)
(* only copies or compares as a whole (owner ids, artist, title, playback  *)
(* status) is a string.  An Option<T> is a sequence of length 0 (None) or  *)
(* 1 (Some).                                                               *)
(***************************************************************************)
EXTENDS Integers, Sequences, FiniteSets, TLC

VARIABLES names, opts, last, alive, matching, resolving, earlier, player

vars == <<names, opts, last, alive, matching, resolving, earlier, player>>

\* Bound: how many times the tracked player changes its properties
MaxChanges == 3

---------------------------------------------------------------------------
(* Bounds of the model *)

\* The most well-known names registered on the bus at one time.
MaxNames == 2

\* The longest --mediaplayer pattern given to matches_pattern on its own.
MaxPatternLen == 4

\* The longest player name given to matches_pattern on its own.
MaxSenderLen == 3

---------------------------------------------------------------------------
(* Option<T> *)

None == <<>>

Some(x) == <<x>>

is_some(o) == Len(o) = 1

\* Option::unwrap_or_default for Option<String>
unwrap_or_default(o) == IF is_some(o) THEN o[1] ELSE ""

\* Option<Vec<String>>::unwrap_or_default
unwrap_or_default_vec(o) == IF is_some(o) THEN o[1] ELSE <<>>

\* the last element in place of the first
first_from_the_end(v) == IF Len(v) > 0 THEN Some(v[Len(v)]) ELSE None

\* slice::first / Vec::get(0), cloned
first(v) == IF Len(v) > 0 THEN Some(v[1]) ELSE None

---------------------------------------------------------------------------
(* str operations used by the code, on sequences of characters *)

starts_with(s, p) == Len(p) <= Len(s) /\ SubSeq(s, 1, Len(p)) = p

ends_with(s, p) == Len(p) <= Len(s) /\ SubSeq(s, Len(s) - Len(p) + 1, Len(s)) = p

contains(s, p) == \E i \in 0..(Len(s) - Len(p)) : SubSeq(s, i + 1, i + Len(p)) = p

\* str::to_lowercase, on the elements that occur in the model's bus names
lower_char(c) ==
    IF c = "org.mpris.MediaPlayer2." THEN "org.mpris.mediaplayer2." ELSE c

to_lowercase(s) == [i \in 1..Len(s) |-> lower_char(s[i])]

\* str::trim_start_matches: removes every leading repetition of the prefix
RECURSIVE trim_start_matches(_, _)
trim_start_matches(s, p) ==
    IF Len(p) > 0 /\ starts_with(s, p)
    THEN trim_start_matches(SubSeq(s, Len(p) + 1, Len(s)), p)
    ELSE s

\* the prefix of every MPRIS player's well-known name
MprisPrefix == <<"org.mpris.MediaPlayer2.">>

---------------------------------------------------------------------------
(* The Identity Matcher of message.rs *)

\* matches_pattern that lets the empty pattern match every name
matches_pattern_empty_any(mediaplayer, sender) ==
    IF mediaplayer = <<>> THEN TRUE
    ELSE IF contains(mediaplayer, <<"*">>)
    THEN IF starts_with(mediaplayer, <<"*">>) /\ ends_with(mediaplayer, <<"*">>)
            /\ Len(mediaplayer) > 2
         THEN contains(sender, SubSeq(mediaplayer, 2, Len(mediaplayer) - 1))
         ELSE IF ends_with(mediaplayer, <<"*">>)
         THEN starts_with(sender, SubSeq(mediaplayer, 1, Len(mediaplayer) - 1))
         ELSE IF starts_with(mediaplayer, <<"*">>)
         THEN ends_with(sender, SubSeq(mediaplayer, 2, Len(mediaplayer)))
         ELSE FALSE
    ELSE mediaplayer = sender

\* matches_pattern whose prefix form looks for the text anywhere in the name
matches_pattern_prefix_anywhere(mediaplayer, sender) ==
    IF contains(mediaplayer, <<"*">>)
    THEN IF starts_with(mediaplayer, <<"*">>) /\ ends_with(mediaplayer, <<"*">>)
            /\ Len(mediaplayer) > 2
         THEN contains(sender, SubSeq(mediaplayer, 2, Len(mediaplayer) - 1))
         ELSE IF ends_with(mediaplayer, <<"*">>)
         THEN contains(sender, SubSeq(mediaplayer, 1, Len(mediaplayer) - 1))
         ELSE IF starts_with(mediaplayer, <<"*">>)
         THEN ends_with(sender, SubSeq(mediaplayer, 2, Len(mediaplayer)))
         ELSE FALSE
    ELSE mediaplayer = sender

matches_pattern(mediaplayer, sender) ==
    IF contains(mediaplayer, <<"*">>)
    THEN IF starts_with(mediaplayer, <<"*">>) /\ ends_with(mediaplayer, <<"*">>)
            /\ Len(mediaplayer) > 2
         THEN contains(sender, SubSeq(mediaplayer, 2, Len(mediaplayer) - 1))
         ELSE IF ends_with(mediaplayer, <<"*">>)
         THEN starts_with(sender, SubSeq(mediaplayer, 1, Len(mediaplayer) - 1))
         ELSE IF starts_with(mediaplayer, <<"*">>)
         THEN ends_with(sender, SubSeq(mediaplayer, 2, Len(mediaplayer)))
         ELSE FALSE
    ELSE mediaplayer = sender

---------------------------------------------------------------------------
(* The session bus: the well-known names, in the order ListNames reports   *)
(* them, each with the unique connection id (owner token) that holds it.   *)

\* Unique connection ids of the processes on the bus.
Tokens == {":1.10", ":1.50", ":1.99"}

Vlc == MprisPrefix \o <<"v", "l", "c">>

Vlc2 == MprisPrefix \o <<"v", "l", "c", "2">>

Mpv == MprisPrefix \o <<"m", "p", "v">>

\* The well-known names processes may request.
BusNames == {Vlc, Vlc2, Mpv}

\* Values of the --mediaplayer option: none, an exact name, a glob.
Selectors == {<<>>, <<"v", "l", "c">>, <<"v", "l", "c", "*">>}

\* Which process may request which name: :1.10 and :1.50 are two processes
\* of the same player (the second may take the name over from the first),
\* :1.99 is a second instance of it, and :1.50 may also be another player.
MayOwn ==
    { [name |-> Vlc, owner |-> ":1.10"], [name |-> Vlc, owner |-> ":1.50"],
      [name |-> Vlc2, owner |-> ":1.99"], [name |-> Mpv, owner |-> ":1.50"] }

registered(bus) == {bus[i].name : i \in 1..Len(bus)}

owners(bus) == {bus[i].owner : i \in 1..Len(bus)}

insert_at(bus, i, e) == SubSeq(bus, 1, i - 1) \o <<e>> \o SubSeq(bus, i, Len(bus))

remove_at(bus, i) == SubSeq(bus, 1, i - 1) \o SubSeq(bus, i + 1, Len(bus))

\* org.freedesktop.DBus.GetNameOwner: the owner, or an error for a name nobody holds
GetNameOwner(bus, name) ==
    IF \E i \in 1..Len(bus) : bus[i].name = name
    THEN Some(bus[CHOOSE i \in 1..Len(bus) : bus[i].name = name].owner)
    ELSE None

\* org.freedesktop.DBus.ListNames
ListNames(bus) == [i \in 1..Len(bus) |-> bus[i].name]

---------------------------------------------------------------------------
(* query_id and is_mediaplayer of message.rs *)

\* the MPRIS names of the bus with the prefix removed, in bus order
RECURSIVE mpris_names(_)
mpris_names(listed) ==
    IF listed = <<>> THEN <<>>
    ELSE IF starts_with(Head(listed), MprisPrefix)
         THEN <<trim_start_matches(Head(listed), MprisPrefix)>> \o mpris_names(Tail(listed))
         ELSE mpris_names(Tail(listed))

\* the loop of query_id: the owner of the first matching name whose lookup succeeds
RECURSIVE first_owner(_, _, _)
first_owner(bus, mediaplayer, candidates) ==
    IF candidates = <<>> THEN None
    ELSE IF matches_pattern(mediaplayer, Head(candidates))
            /\ is_some(GetNameOwner(bus, MprisPrefix \o Head(candidates)))
         THEN GetNameOwner(bus, MprisPrefix \o Head(candidates))
         ELSE first_owner(bus, mediaplayer, Tail(candidates))

\* query_id on a bus that may lose names between the reply to ListNames
\* (listed) and the replies to GetNameOwner (bus);
\* Ok(id) is Some(id), Err(MessageError::MethodCall) is None
query_id_during(listed, bus, mediaplayer) ==
    first_owner(bus, mediaplayer, mpris_names(ListNames(listed)))

\* query_id on a bus that stays as it is during the call
query_id(bus, mediaplayer) == query_id_during(bus, bus, mediaplayer)

\* is_mediaplayer that compares the sender with the owner found at startup
is_mediaplayer_startup_owner(mediaplayer_id, sender, mediaplayer) ==
    IF mediaplayer = <<>> THEN TRUE
    ELSE sender = ":1.10"

\* is_mediaplayer without the early return for an empty selector
is_mediaplayer_resolving(mediaplayer_id, sender, mediaplayer) ==
    is_some(mediaplayer_id) /\ sender = mediaplayer_id[1]

\* mediaplayer_id: what the call of query_id in is_mediaplayer returns
is_mediaplayer(mediaplayer_id, sender, mediaplayer) ==
    IF mediaplayer = <<>> THEN TRUE
    ELSE is_some(mediaplayer_id) /\ sender = mediaplayer_id[1]

---------------------------------------------------------------------------
(* query_id and is_mediaplayer of main.rs *)

main_query_id(bus, mediaplayer) == GetNameOwner(bus, MprisPrefix \o mediaplayer)

main_is_mediaplayer(mediaplayer_id, sender, mediaplayer) ==
    IF mediaplayer = <<>> THEN TRUE
    ELSE is_some(mediaplayer_id) /\ sender = mediaplayer_id[1]

---------------------------------------------------------------------------
(* Messages.  A PropertiesChanged signal is described by what the code     *)
(* can observe of it: whether its two arguments (String, PropMap) can be   *)
(* read, the key that map.keys().next() yields, and what the casts of the  *)
(* value under that key give.                                              *)

\* PlaybackStatus values a player may report ("Buffering": none of MPRIS's three)
Statuses == {"Playing", "Paused", "Stopped", "Buffering"}

\* <<xesam:artist, xesam:title>> as prop_cast reads them from a metadata map:
\* complete with several artists, an empty artist list, no artist, no title,
\* neither
Tracks ==
    { <<Some(<<"Boards of Canada", "Eno">>), Some("Roygbiv")>>,
      <<Some(<<>>), Some("Roygbiv")>>,
      <<None, Some("Roygbiv")>>,
      <<Some(<<"Boards of Canada", "Eno">>), None>>,
      <<None, None>> }

Body(decodable, key, cast, artist, title, status) ==
    [decodable |-> decodable, key |-> key, cast |-> cast,
     artist |-> artist, title |-> title, status |-> status]

Bodies ==
    {Body(FALSE, None, FALSE, None, None, None)}            \* read2 fails
    \cup {Body(TRUE, None, FALSE, None, None, None)}        \* an empty map
    \cup {Body(TRUE, Some("Volume"), FALSE, None, None, None)}
    \cup {Body(TRUE, Some("Metadata"), FALSE, None, None, None)}
    \cup {Body(TRUE, Some("Metadata"), TRUE, m[1], m[2], None) : m \in Tracks}
    \cup {Body(TRUE, Some("PlaybackStatus"), FALSE, None, None, None)}
    \cup {Body(TRUE, Some("PlaybackStatus"), TRUE, None, None, Some(s)) : s \in Statuses}

\* The reply to a Properties.Get call: whether the call returned at all
\* (ok), whether read1 decodes the reply (readable), and the value.
Reply(ok, readable, status, artist, title) ==
    [ok |-> ok, readable |-> readable, status |-> status, artist |-> artist, title |-> title]

CallFailed == Reply(FALSE, FALSE, "", None, None)

Unreadable == Reply(TRUE, FALSE, "", None, None)

StatusReplies ==
    {CallFailed, Unreadable} \cup {Reply(TRUE, TRUE, s, None, None) : s \in Statuses}

MetadataReplies ==
    {CallFailed, Unreadable}
    \cup {Reply(TRUE, TRUE, "", m[1], m[2]) : m \in Tracks}

\* No Properties.Get call is made
NoReply == Reply(FALSE, FALSE, "-", None, None)

---------------------------------------------------------------------------
(* parse_message and get_property of message.rs.                           *)
(* Result<Contents, MessageError>: tag is the variant of Contents, or Err. *)

Contents(tag, artist, title, status) ==
    [tag |-> tag, artist |-> artist, title |-> title, status |-> status]

Err == Contents("Err", <<>>, "", "")

\* parse_message that takes a payload it does not recognize for an empty status
parse_message_lenient(body) ==
    IF ~body.decodable THEN Err
    ELSE IF body.key = Some("Metadata") /\ body.cast /\ is_some(body.title) /\ is_some(body.artist)
         THEN Contents("Metadata", body.artist[1], body.title[1], "")
    ELSE IF body.key = Some("PlaybackStatus") /\ body.cast /\ is_some(body.status)
         THEN Contents("PlaybackStatus", <<>>, "", body.status[1])
    ELSE Contents("PlaybackStatus", <<>>, "", "")

parse_message(body) ==
    IF ~body.decodable \/ body.key = None THEN Err
    ELSE IF body.key = Some("Metadata")
         THEN IF body.cast /\ is_some(body.title) /\ is_some(body.artist)
              THEN Contents("Metadata", body.artist[1], body.title[1], "")
              ELSE Err
    ELSE IF body.key = Some("PlaybackStatus")
         THEN IF body.cast /\ is_some(body.status)
              THEN Contents("PlaybackStatus", <<>>, "", body.status[1])
              ELSE Err
    ELSE Err

get_property(busname, property, reply) ==
    IF ~is_some(busname) THEN Err
    ELSE IF ~reply.ok THEN Err
    ELSE IF property = "PlaybackStatus"
         THEN Contents("PlaybackStatus", <<>>, "", IF reply.readable THEN reply.status ELSE "")
    ELSE IF property = "Metadata"
         THEN IF reply.readable
              THEN Contents("Metadata", unwrap_or_default_vec(reply.artist),
                            unwrap_or_default(reply.title), "")
              ELSE Err
    ELSE Err

---------------------------------------------------------------------------
(* parse_message and get_property of main.rs.                              *)
(* Option<Contents> with Option fields; tag "panic" is the panic!() of the *)
(* read2 error arm.                                                        *)

main_Contents(tag, artist, title, status) ==
    [tag |-> tag, artist |-> artist, title |-> title, status |-> status]

main_parse_message(body) ==
    IF ~body.decodable THEN main_Contents("panic", None, None, None)
    ELSE IF body.key = Some("Metadata") /\ body.cast
         THEN main_Contents("Metadata", body.artist, body.title, None)
    ELSE IF body.key = Some("PlaybackStatus") /\ body.cast /\ is_some(body.status)
         THEN main_Contents("PlaybackStatus", None, None, body.status)
    ELSE main_Contents("None", None, None, None)

\* (Option<String>, Option<String>)
main_get_property(busname, property, reply) ==
    IF ~is_some(busname) \/ ~reply.ok THEN <<None, None>>
    ELSE IF property = "PlaybackStatus"
         THEN <<Some(IF reply.readable THEN reply.status ELSE ""), None>>
    ELSE IF property = "Metadata"
         THEN IF reply.readable
              THEN <<first(unwrap_or_default_vec(reply.artist)), reply.title>>
              ELSE <<None, None>>
    ELSE <<None, None>>

---------------------------------------------------------------------------
(* What handling one signal does, as the outside sees it:                  *)
(*   res      the results of the owner resolutions (query_id), in order    *)
(*   reads    the Properties.Get calls made, with the reply each got       *)
(*   out      what was handed on for display: sessions, or the clear       *)
(*   cmds     the Play/Pause method calls sent                             *)
(*   panicked the handler panicked instead of returning                    *)
(* The connection a handler works with is given by the answers it gets:    *)
(* ids, the results of the calls of query_id it makes (ids[1] to the call  *)
(* in is_mediaplayer, the next ones to the later calls), reply, the reply  *)
(* to its Properties.Get call, and ack, whether its Play/Pause call was    *)
(* acknowledged.                                                           *)

Outcome(res, reads, out, cmds, panicked) ==
    [res |-> res, reads |-> reads, out |-> out, cmds |-> cmds, panicked |-> panicked]

Nothing == Outcome(<<>>, <<>>, <<>>, <<>>, FALSE)

Read(target, property, reply) == [target |-> target, property |-> property, reply |-> reply]

\* struct Media of message.rs, as BarOutput::new receives it
Media(artist, title, playbackstatus) ==
    [kind |-> "session", artist |-> artist, title |-> title, playbackstatus |-> playbackstatus]

\* write_output("") of the NameOwnerChanged closure
Clear == [kind |-> "clear", artist |-> "", title |-> "", playbackstatus |-> ""]

\* toggle_playback that sends its method call twice
toggle_playback_repeated(mediaplayer, cmd, ack) ==
    <<[to |-> mediaplayer, cmd |-> cmd, acked |-> ack],
      [to |-> mediaplayer, cmd |-> cmd, acked |-> ack]>>

\* toggle_playback: one method call; a failed reply is only logged
toggle_playback(mediaplayer, cmd, ack) == <<[to |-> mediaplayer, cmd |-> cmd, acked |-> ack]>>

---------------------------------------------------------------------------
(* The signal handling of message.rs *)

\* handle_valid_mediaplayer_signal that keeps the playback status of the
\* session it emitted last and reuses it in place of reading it again
handle_valid_mediaplayer_signal_cached(sender, body, reply) ==
    LET contents == parse_message(body)
    IN  IF contents.tag = "Metadata"
        THEN LET playbackstatus == get_property(Some(sender), "PlaybackStatus", reply)
             IN  Outcome(<<>>, <<Read(sender, "PlaybackStatus", reply)>>,
                         IF playbackstatus.tag = "PlaybackStatus"
                         THEN <<Media(unwrap_or_default(first(contents.artist)),
                                      contents.title,
                                      IF last.out # <<>> THEN last.out[1].playbackstatus
                                      ELSE playbackstatus.status)>>
                         ELSE <<>>,
                         <<>>, FALSE)
        ELSE IF contents.tag = "PlaybackStatus"
        THEN LET metadata == get_property(Some(sender), "Metadata", reply)
             IN  Outcome(<<>>, <<Read(sender, "Metadata", reply)>>,
                         IF metadata.tag = "Metadata"
                         THEN <<Media(unwrap_or_default(first(metadata.artist)),
                                      metadata.title, contents.status)>>
                         ELSE <<>>,
                         <<>>, FALSE)
        ELSE Nothing

handle_valid_mediaplayer_signal(sender, body, reply) ==
    LET contents == parse_message(body)
    IN  IF contents.tag = "Metadata"
        THEN LET playbackstatus == get_property(Some(sender), "PlaybackStatus", reply)
             IN  Outcome(<<>>, <<Read(sender, "PlaybackStatus", reply)>>,
                         IF playbackstatus.tag = "PlaybackStatus"
                         THEN <<Media(unwrap_or_default(first(contents.artist)),
                                      contents.title, playbackstatus.status)>>
                         ELSE <<>>,
                         <<>>, FALSE)
        ELSE IF contents.tag = "PlaybackStatus"
        THEN LET metadata == get_property(Some(sender), "Metadata", reply)
             IN  Outcome(<<>>, <<Read(sender, "Metadata", reply)>>,
                         IF metadata.tag = "Metadata"
                         THEN <<Media(unwrap_or_default(first(metadata.artist)),
                                      metadata.title, contents.status)>>
                         ELSE <<>>,
                         <<>>, FALSE)
        ELSE Nothing

\* mediaplayer_id: what the call of query_id in should_toggle_playback returns
should_toggle_playback(mediaplayer_id, o) == o.autotoggle /\ is_some(mediaplayer_id)

\* toggle_for with the two commands exchanged
toggle_for_exchanged(mediaplayer_id, reads, status, ack) ==
    Outcome(<<mediaplayer_id>>, reads, <<>>,
            IF ~is_some(mediaplayer_id) THEN <<>>
            ELSE IF status = "Playing"
                 THEN toggle_playback(mediaplayer_id[1], "Play", ack)
                 ELSE toggle_playback(mediaplayer_id[1], "Pause", ack),
            FALSE)

\* the end of toggle_playback_if_needed, once the other player's status is
\* known: the tracked player is resolved, then paused or resumed
toggle_for(mediaplayer_id, reads, status, ack) ==
    Outcome(<<mediaplayer_id>>, reads, <<>>,
            IF ~is_some(mediaplayer_id) THEN <<>>
            ELSE IF status = "Playing"
                 THEN toggle_playback(mediaplayer_id[1], "Pause", ack)
                 ELSE toggle_playback(mediaplayer_id[1], "Play", ack),
            FALSE)

\* mediaplayer_id: what the call of query_id in toggle_playback_if_needed returns
toggle_playback_if_needed(mediaplayer_id, sender, body, reply, ack) ==
    LET other_media == parse_message(body)
    IN  IF other_media.tag = "PlaybackStatus"
        THEN toggle_for(mediaplayer_id, <<>>, other_media.status, ack)
        ELSE IF other_media.tag = "Metadata"
        THEN LET playbackstatus == get_property(Some(sender), "PlaybackStatus", reply)
             IN  IF playbackstatus.tag = "PlaybackStatus"
                 THEN toggle_for(mediaplayer_id, <<Read(sender, "PlaybackStatus", reply)>>,
                                 playbackstatus.status, ack)
                 ELSE Outcome(<<>>, <<Read(sender, "PlaybackStatus", reply)>>, <<>>, <<>>, FALSE)
        ELSE Nothing

with_resolutions(before, outcome) == [outcome EXCEPT !.res = before \o @]

\* The PropertiesChanged closure that calls the functions of message.rs:
\*   if is_mediaplayer(..) { handle_valid_mediaplayer_signal(..) }
\*   else if should_toggle_playback(..) { toggle_playback_if_needed(..) }
properties_changed(ids, o, sender, body, reply, ack) ==
    LET asked == IF o.mediaplayer = <<>> THEN <<>> ELSE <<ids[1]>>
    IN  IF is_mediaplayer(ids[1], sender, o.mediaplayer)
        THEN with_resolutions(asked, handle_valid_mediaplayer_signal(sender, body, reply))
        ELSE IF ~o.autotoggle THEN with_resolutions(asked, Nothing)
        ELSE IF should_toggle_playback(ids[2], o)
        THEN with_resolutions(asked \o <<ids[2]>>,
                 toggle_playback_if_needed(ids[3], sender, body, reply, ack))
        ELSE with_resolutions(asked \o <<ids[2]>>, Nothing)

---------------------------------------------------------------------------
(* The signal handling of main.rs *)

\* struct Song
Song(artist, title, playbackstatus) ==
    [artist |-> artist, title |-> title, playbackstatus |-> playbackstatus]

\* Output::new with the default order "artist,title": each expect() panics
\* on a None; Some(output) when it returns, None when it panics.
Output_new(song) ==
    IF is_some(song.artist) /\ is_some(song.title)
    THEN Some(Media(song.artist[1], song.title[1], song.playbackstatus))
    ELSE None

\* from the Song to write_output
main_write(res, reads, song) ==
    IF is_some(Output_new(song))
    THEN Outcome(res, reads, <<Output_new(song)[1]>>, <<>>, FALSE)
    ELSE Outcome(res, reads, <<>>, <<>>, TRUE)

\* the branch taken when is_mediaplayer holds
main_own_branch(res, sender, body, reply) ==
    LET contents == main_parse_message(body)
    IN  IF contents.tag = "panic" THEN Outcome(res, <<>>, <<>>, <<>>, TRUE)
        ELSE IF contents.tag = "Metadata"
        THEN main_write(res, <<Read(sender, "PlaybackStatus", reply)>>,
                 Song(first(unwrap_or_default_vec(contents.artist)), contents.title,
                      unwrap_or_default(
                          main_get_property(Some(sender), "PlaybackStatus", reply)[1])))
        ELSE IF contents.tag = "PlaybackStatus"
        THEN LET metadata == main_get_property(Some(sender), "Metadata", reply)
             IN  main_write(res, <<Read(sender, "Metadata", reply)>>,
                     Song(metadata[1], metadata[2], unwrap_or_default(contents.status)))
        ELSE Outcome(res, <<>>, <<>>, <<>>, FALSE)

\* the branch taken when is_mediaplayer does not hold;
\* mediaplayer: what the call of query_id in this branch returns
main_other_branch(res, mediaplayer, body, ack) ==
    LET other_media == main_parse_message(body)
        status      == unwrap_or_default(other_media.status)
    IN  IF ~is_some(mediaplayer) THEN Outcome(res \o <<mediaplayer>>, <<>>, <<>>, <<>>, FALSE)
        ELSE IF other_media.tag = "panic"
        THEN Outcome(res \o <<mediaplayer>>, <<>>, <<>>, <<>>, TRUE)
        ELSE IF other_media.tag = "PlaybackStatus"
        THEN Outcome(res \o <<mediaplayer>>, <<>>, <<>>,
                     IF status = "Playing" THEN toggle_playback(mediaplayer[1], "Pause", ack)
                     ELSE IF status \in {"Paused", "Stopped", ""}
                          THEN toggle_playback(mediaplayer[1], "Play", ack)
                          ELSE <<>>,
                     FALSE)
        ELSE Outcome(res \o <<mediaplayer>>, <<>>, <<>>, <<>>, FALSE)

\* The PropertiesChanged closure of main.rs
main_properties_changed(ids, o, sender, body, reply, ack) ==
    LET asked == IF o.mediaplayer = <<>> THEN <<>> ELSE <<ids[1]>>
    IN  IF main_is_mediaplayer(ids[1], sender, o.mediaplayer)
        THEN main_own_branch(asked, sender, body, reply)
        ELSE main_other_branch(asked, ids[2], body, ack)

\* A NameOwnerChanged signal as read_nameowner reads it; "" is an absent owner
NameOwner(decodable, name, old_name, new_name) ==
    [decodable |-> decodable, name |-> name, old_name |-> old_name, new_name |-> new_name]

\* the signals the bus can send: a name is taken, released, or passes
\* from one process to another; and one that read_nameowner cannot read
NameOwnerSignals ==
    {NameOwner(FALSE, <<>>, "", "")}
    \cup {NameOwner(TRUE, e.name, "", e.owner) : e \in MayOwn}
    \cup {NameOwner(TRUE, e.name, e.owner, "") : e \in MayOwn}
    \cup {NameOwner(TRUE, p[1].name, p[1].owner, p[2].owner) :
             p \in {q \in MayOwn \X MayOwn : q[1].name = q[2].name /\ q[1].owner # q[2].owner}}

\* main_nameowner_changed without the early return for an empty selector
main_nameowner_changed_unguarded(o, signal) ==
    IF signal.decodable
       /\ contains(to_lowercase(signal.name), o.mediaplayer)
       /\ signal.new_name = ""
    THEN Outcome(<<>>, <<>>, <<Clear>>, <<>>, FALSE)
    ELSE Nothing

\* The NameOwnerChanged closure of main.rs
main_nameowner_changed(o, signal) ==
    IF o.mediaplayer = <<>> THEN Nothing
    ELSE IF signal.decodable
            /\ contains(to_lowercase(signal.name), o.mediaplayer)
            /\ signal.new_name = ""
         THEN Outcome(<<>>, <<>>, <<Clear>>, <<>>, FALSE)
         ELSE Nothing

---------------------------------------------------------------------------
(* matches_pattern and query_id called on their own *)

\* one call of matches_pattern: its arguments and, once it returned, the result
Matching(mediaplayer, sender, returned, result) ==
    [mediaplayer |-> mediaplayer, sender |-> sender, returned |-> returned, result |-> result]

NoMatching == Matching(<<>>, <<>>, FALSE, FALSE)

\* the strings of at most n characters of an alphabet
Strings(alphabet, n) == UNION {[1..k -> alphabet] : k \in 0..n}

\* values of the mediaplayer argument
Patterns == Strings({"a", "b", "*"}, MaxPatternLen)

\* values of the sender argument: player names, which hold no '*'
Senders == Strings({"a", "b", "A"}, MaxSenderLen)

\* one call of query_id: the bus when ListNames is answered, the bus when the
\* GetNameOwner calls are answered, the selector and, once it returned, the
\* results of query_id of message.rs and of main.rs
Resolving(listed, bus, mediaplayer, returned, result, main_result) ==
    [listed |-> listed, bus |-> bus, mediaplayer |-> mediaplayer,
     returned |-> returned, result |-> result, main_result |-> main_result]

NoResolving == Resolving(<<>>, <<>>, <<>>, FALSE, None, None)

\* a well-known name outside the MPRIS namespace
Outside == <<"org.example.", "v", "l", "c">>

\* a well-known name whose part after the MPRIS prefix starts with the prefix again
Nested == MprisPrefix \o Vlc

\* the names, with their owners, that ListNames may report to query_id
Advertised ==
    { [name |-> Vlc, owner |-> ":1.10"], [name |-> Vlc2, owner |-> ":1.99"],
      [name |-> Mpv, owner |-> ":1.50"], [name |-> Outside, owner |-> ":1.50"],
      [name |-> Nested, owner |-> ":1.99"] }

\* the buses of at most MaxNames names, in every order
Listings ==
    UNION { {l \in [1..k -> Advertised] : \A i, j \in 1..k : i # j => l[i].name # l[j].name}
            : k \in 0..MaxNames }

\* the bus once some of its names were released
Remaining(listed) ==
    { SelectSeq(listed, LAMBDA e : e.name \in kept) : kept \in SUBSET registered(listed) }

\* selectors given to query_id: those of the process and a suffix glob
ResolveSelectors == Selectors \cup {<<"*", "l", "c">>}

---------------------------------------------------------------------------
(* The state machine *)

Options == [mediaplayer : Selectors, autotoggle : BOOLEAN]

NoBody == Body(FALSE, Some("-"), FALSE, None, None, None)

NoSignal == NameOwner(FALSE, <<"-">>, "", "")

\* the record of the signal handled last: who handled it, the signal, the outcome
Handled(by, sender, body, signal, outcome) ==
    [by |-> by, sender |-> sender, body |-> body, signal |-> signal,
     res |-> outcome.res, reads |-> outcome.reads, out |-> outcome.out,
     cmds |-> outcome.cmds, panicked |-> outcome.panicked]

\* a signal handled before the last one, and whether a different signal
\* was handled between the two
Earlier(handled, others) == [handled |-> handled, others |-> others]

NoEarlier == Earlier(Handled("nobody", "", NoBody, NoSignal, Nothing), FALSE)

\* The tracked player as the process meets it: its PlaybackStatus and
\* Metadata properties, the PropertiesChanged signals it has sent that are
\* still to be handled (in bus order), the session on display (written
\* last), and how many times its properties have changed
Player(status, track, pending, shown, changes) ==
    [status |-> status, track |-> track, pending |-> pending,
     shown |-> shown, changes |-> changes]

NoPlayer == Player("", <<None, None>>, <<>>, None, 0)

Init ==
    /\ names = <<>>
    /\ opts \in Options
    /\ last = Handled("nobody", "", NoBody, NoSignal, Nothing)
    /\ alive = TRUE
    /\ earlier = NoEarlier
    /\ player = NoPlayer
    /\ matching = NoMatching
    /\ resolving = NoResolving

\* the replies the one Properties.Get call of an outcome may receive
RepliesFor(reads) ==
    IF reads = <<>> THEN {NoReply}
    ELSE IF reads[1].property = "PlaybackStatus" THEN StatusReplies
    ELSE MetadataReplies

AcksFor(cmds) == IF cmds = <<>> THEN {TRUE} ELSE BOOLEAN

\* the answers of a bus that does not change while the signal is handled
Answers(id) == <<id, id, id>>

\* conn.process delivers a PropertiesChanged signal to the closure built on message.rs
PropertiesChanged ==
    /\ alive
    /\ last.by \in {"nobody", "message.properties"}
    /\ LET ids == Answers(query_id(names, opts.mediaplayer))
       IN  \E sender \in Tokens, body \in Bodies :
             LET probe == properties_changed(ids, opts, sender, body, NoReply, TRUE)
             IN  \E reply \in RepliesFor(probe.reads), ack \in AcksFor(probe.cmds) :
                   LET outcome == properties_changed(ids, opts, sender, body, reply, ack)
                   IN  /\ last' = Handled("message.properties", sender, body, NoSignal, outcome)
                       /\ alive' = ~outcome.panicked
    /\ UNCHANGED <<names, opts, matching, resolving, earlier, player>>

\* conn.process delivers a PropertiesChanged signal to the closure of main.rs
MainPropertiesChanged ==
    /\ alive
    /\ last.by \in {"nobody", "main.properties", "main.nameowner"}
    /\ LET ids == Answers(main_query_id(names, opts.mediaplayer))
       IN  \E sender \in Tokens, body \in Bodies :
             LET probe == main_properties_changed(ids, opts, sender, body, NoReply, TRUE)
             IN  \E reply \in RepliesFor(probe.reads), ack \in AcksFor(probe.cmds) :
                   LET outcome == main_properties_changed(ids, opts, sender, body, reply, ack)
                   IN  /\ last' = Handled("main.properties", sender, body, NoSignal, outcome)
                       /\ alive' = ~outcome.panicked
    /\ UNCHANGED <<names, opts, matching, resolving, earlier, player>>

\* conn.process delivers a NameOwnerChanged signal to the closure of main.rs
MainNameOwnerChanged ==
    /\ alive
    /\ last.by \in {"nobody", "main.properties", "main.nameowner"}
    /\ \E signal \in NameOwnerSignals :
         LET outcome == main_nameowner_changed(opts, signal)
         IN  /\ last' = Handled("main.nameowner", "", NoBody, signal, outcome)
             /\ alive' = ~outcome.panicked
    /\ UNCHANGED <<names, opts, matching, resolving, earlier, player>>

\* A process takes a well-known name nobody holds
NameAcquired ==
    /\ Len(names) < MaxNames
    /\ \E e \in MayOwn, i \in 1..(Len(names) + 1) :
         /\ e.name \notin registered(names)
         /\ e.owner \notin owners(names)
         /\ names' = insert_at(names, i, e)
    /\ UNCHANGED <<opts, last, alive, matching, resolving, earlier, player>>

\* The owner of a name exits or releases it
NameReleased ==
    /\ \E i \in 1..Len(names) : names' = remove_at(names, i)
    /\ UNCHANGED <<opts, last, alive, matching, resolving, earlier, player>>

\* The name passes to another process
NameOwnerReplaced ==
    /\ \E i \in 1..Len(names), e \in MayOwn :
         /\ e.name = names[i].name
         /\ e.owner \notin owners(names)
         /\ names' = [names EXCEPT ![i] = e]
    /\ UNCHANGED <<opts, last, alive, matching, resolving, earlier, player>>

\* the bus changes under the process
BusChanges ==
    \/ NameAcquired
    \/ NameReleased
    \/ NameOwnerReplaced

Next ==
    \/ PropertiesChanged
    \/ MainPropertiesChanged
    \/ MainNameOwnerChanged
    \/ BusChanges

\* a process that handles its signals with either generation of the code
Spec == Init /\ [][Next]_vars

NextMessage ==
    \/ PropertiesChanged
    \/ BusChanges

\* a process that handles PropertiesChanged with the functions of message.rs
SpecMessage == Init /\ [][NextMessage]_vars

NextMain ==
    \/ MainPropertiesChanged
    \/ MainNameOwnerChanged
    \/ BusChanges

\* the binary of main.rs
SpecMain == Init /\ [][NextMain]_vars

\* the arguments of one call of matches_pattern
InitMatch ==
    /\ names = <<>>
    /\ opts = [mediaplayer |-> <<>>, autotoggle |-> FALSE]
    /\ last = Handled("nobody", "", NoBody, NoSignal, Nothing)
    /\ alive = TRUE
    /\ earlier = NoEarlier
    /\ player = NoPlayer
    /\ matching \in {Matching(p, n, FALSE, FALSE) : p \in Patterns, n \in Senders}
    /\ resolving = NoResolving

\* the call returns
MatchesPattern ==
    /\ ~matching.returned
    /\ matching' = Matching(matching.mediaplayer, matching.sender, TRUE,
                            matches_pattern(matching.mediaplayer, matching.sender))
    /\ UNCHANGED <<names, opts, last, alive, resolving, earlier, player>>

NextMatch == MatchesPattern

\* matches_pattern applied to every pattern and name of the bounds
SpecMatch == InitMatch /\ [][NextMatch]_vars

\* the arguments of one call of query_id and the bus it meets
InitResolve ==
    /\ names = <<>>
    /\ opts = [mediaplayer |-> <<>>, autotoggle |-> FALSE]
    /\ last = Handled("nobody", "", NoBody, NoSignal, Nothing)
    /\ alive = TRUE
    /\ earlier = NoEarlier
    /\ player = NoPlayer
    /\ matching = NoMatching
    /\ resolving \in {Resolving(l, b, m, FALSE, None, None) :
                          l \in Listings, b \in UNION {Remaining(x) : x \in Listings},
                          m \in ResolveSelectors}
    /\ resolving.bus \in Remaining(resolving.listed)

\* the call returns
QueryId ==
    /\ ~resolving.returned
    /\ resolving' = Resolving(resolving.listed, resolving.bus, resolving.mediaplayer, TRUE,
                              query_id_during(resolving.listed, resolving.bus,
                                              resolving.mediaplayer),
                              main_query_id(resolving.bus, resolving.mediaplayer))
    /\ UNCHANGED <<names, opts, last, alive, matching, earlier, player>>

NextResolve == QueryId

\* query_id applied to every bus and selector of the bounds
SpecResolve == InitResolve /\ [][NextResolve]_vars

\* the tracked player is running when the process starts
InitOwnerChange ==
    /\ names = <<[name |-> Vlc, owner |-> ":1.10"]>>
    /\ opts \in {o \in Options : o.mediaplayer # <<>>}
    /\ last = Handled("nobody", "", NoBody, NoSignal, Nothing)
    /\ alive = TRUE
    /\ earlier = NoEarlier
    /\ player = NoPlayer
    /\ matching = NoMatching
    /\ resolving = NoResolving

NextOwnerChange ==
    \/ PropertiesChanged
    \/ MainPropertiesChanged
    \/ NameOwnerReplaced

\* a process whose tracked name passes from one owner to another while it runs
SpecOwnerChange == InitOwnerChange /\ [][NextOwnerChange]_vars

---------------------------------------------------------------------------
(* Signals handled while the bus changes.  Each query_id call of a handler *)
(* is a blocking round trip to the bus daemon (send_with_reply_and_block), *)
(* and other processes take and release names between two of them.  The    *)
(* handler's position is kept in last.by, the answers it has in last.res.  *)

Asked(by, sender, body, ids) ==
    Handled(by, sender, body, NoSignal, Outcome(ids, <<>>, <<>>, <<>>, FALSE))

\* the closure built on message.rs is called; query_id of is_mediaplayer returns
IsMediaplayerAnswered ==
    /\ alive
    /\ last.by \in {"nobody", "message.properties"}
    /\ \E sender \in Tokens, body \in Bodies :
         last' = Asked("message.is_mediaplayer", sender, body,
                       <<query_id(names, opts.mediaplayer)>>)
    /\ UNCHANGED <<names, opts, alive, matching, resolving, earlier, player>>

\* query_id of should_toggle_playback returns
ShouldToggleAnswered ==
    /\ last.by = "message.is_mediaplayer"
    /\ last' = Asked("message.should_toggle_playback", last.sender, last.body,
                     last.res \o <<query_id(names, opts.mediaplayer)>>)
    /\ UNCHANGED <<names, opts, alive, matching, resolving, earlier, player>>

\* query_id of toggle_playback_if_needed returns and the closure runs to its end
PropertiesChangedMeanwhile ==
    /\ last.by = "message.should_toggle_playback"
    /\ LET ids == last.res \o <<query_id(names, opts.mediaplayer)>>
           probe == properties_changed(ids, opts, last.sender, last.body, NoReply, TRUE)
       IN  \E reply \in RepliesFor(probe.reads), ack \in AcksFor(probe.cmds) :
             LET outcome == properties_changed(ids, opts, last.sender, last.body, reply, ack)
             IN  /\ last' = Handled("message.properties", last.sender, last.body,
                                    NoSignal, outcome)
                 /\ alive' = ~outcome.panicked
    /\ UNCHANGED <<names, opts, matching, resolving, earlier, player>>

\* the closure of main.rs is called; query_id of is_mediaplayer returns
MainIsMediaplayerAnswered ==
    /\ alive
    /\ last.by \in {"nobody", "main.properties"}
    /\ \E sender \in Tokens, body \in Bodies :
         last' = Asked("main.is_mediaplayer", sender, body,
                       <<main_query_id(names, opts.mediaplayer)>>)
    /\ UNCHANGED <<names, opts, alive, matching, resolving, earlier, player>>

\* query_id of the else branch returns and the closure runs to its end
MainPropertiesChangedMeanwhile ==
    /\ last.by = "main.is_mediaplayer"
    /\ LET ids == last.res \o <<main_query_id(names, opts.mediaplayer),
                                main_query_id(names, opts.mediaplayer)>>
           probe == main_properties_changed(ids, opts, last.sender, last.body, NoReply, TRUE)
       IN  \E reply \in RepliesFor(probe.reads), ack \in AcksFor(probe.cmds) :
             LET outcome == main_properties_changed(ids, opts, last.sender, last.body, reply, ack)
             IN  /\ last' = Handled("main.properties", last.sender, last.body,
                                    NoSignal, outcome)
                 /\ alive' = ~outcome.panicked
    /\ UNCHANGED <<names, opts, matching, resolving, earlier, player>>

NextRace ==
    \/ IsMediaplayerAnswered
    \/ ShouldToggleAnswered
    \/ PropertiesChangedMeanwhile
    \/ MainIsMediaplayerAnswered
    \/ MainPropertiesChangedMeanwhile
    \/ BusChanges

\* started with --autotoggle and a selector, before any player runs
InitRace ==
    /\ names = <<>>
    /\ opts \in {o \in Options : o.autotoggle /\ o.mediaplayer # <<>>}
    /\ last = Handled("nobody", "", NoBody, NoSignal, Nothing)
    /\ alive = TRUE
    /\ earlier = NoEarlier
    /\ player = NoPlayer
    /\ matching = NoMatching
    /\ resolving = NoResolving

\* a process whose handlers run while names come and go
SpecRace == InitRace /\ [][NextRace]_vars

---------------------------------------------------------------------------
(* Signals handled one after another while the bus and the players stay as *)
(* they are: every Properties.Get call is answered with the player's state *)
(* and every Play/Pause call is acknowledged.                              *)

\* the playback status of each player
SteadyStatus(token) ==
    IF token = ":1.10" THEN "Playing"
    ELSE IF token = ":1.50" THEN "Paused"
    ELSE "Stopped"

\* <<xesam:artist, xesam:title>> of each player
SteadyTrack(token) ==
    IF token = ":1.10" THEN <<Some(<<"Boards of Canada", "Eno">>), Some("Roygbiv")>>
    ELSE IF token = ":1.50" THEN <<Some(<<>>), Some("Roygbiv")>>
    ELSE <<None, None>>

\* the reply to the Properties.Get call of an outcome
SteadyReply(reads) ==
    IF reads = <<>> THEN NoReply
    ELSE IF reads[1].property = "PlaybackStatus"
         THEN Reply(TRUE, TRUE, SteadyStatus(reads[1].target), None, None)
         ELSE Reply(TRUE, TRUE, "", SteadyTrack(reads[1].target)[1],
                    SteadyTrack(reads[1].target)[2])

SteadyBuses ==
    { <<[name |-> Vlc, owner |-> ":1.10"], [name |-> Mpv, owner |-> ":1.50"]>>,
      <<[name |-> Vlc2, owner |-> ":1.99"], [name |-> Vlc, owner |-> ":1.10"]>> }

InitHistory ==
    /\ names \in SteadyBuses
    /\ opts \in Options
    /\ last = Handled("nobody", "", NoBody, NoSignal, Nothing)
    /\ alive = TRUE
    /\ earlier = NoEarlier
    /\ player = NoPlayer
    /\ matching = NoMatching
    /\ resolving = NoResolving

SameSignal(a, b) == a.by = b.by /\ a.sender = b.sender /\ a.body = b.body

\* the signal handled last is kept for later, or the one kept stays
Remembered ==
    \/ last.by # "nobody" /\ earlier' = Earlier(last, FALSE)
    \/ earlier' = Earlier(earlier.handled,
                          \/ earlier.others
                          \/ earlier.handled.by # "nobody" /\ ~SameSignal(earlier.handled, last))

\* conn.process delivers one more signal to the closure built on message.rs
SteadyPropertiesChanged ==
    /\ alive
    /\ last.by \in {"nobody", "message.properties"}
    /\ LET ids == Answers(query_id(names, opts.mediaplayer))
       IN  \E sender \in Tokens, body \in Bodies :
             LET probe == properties_changed(ids, opts, sender, body, NoReply, TRUE)
                 outcome == properties_changed(ids, opts, sender, body,
                                               SteadyReply(probe.reads), TRUE)
             IN  /\ last' = Handled("message.properties", sender, body, NoSignal, outcome)
                 /\ alive' = ~outcome.panicked
    /\ Remembered
    /\ UNCHANGED <<names, opts, matching, resolving, player>>

\* conn.process delivers one more signal to the closure of main.rs
SteadyMainPropertiesChanged ==
    /\ alive
    /\ last.by \in {"nobody", "main.properties"}
    /\ LET ids == Answers(main_query_id(names, opts.mediaplayer))
       IN  \E sender \in Tokens, body \in Bodies :
             LET probe == main_properties_changed(ids, opts, sender, body, NoReply, TRUE)
                 outcome == main_properties_changed(ids, opts, sender, body,
                                                    SteadyReply(probe.reads), TRUE)
             IN  /\ last' = Handled("main.properties", sender, body, NoSignal, outcome)
                 /\ alive' = ~outcome.panicked
    /\ Remembered
    /\ UNCHANGED <<names, opts, matching, resolving, player>>

NextHistory ==
    \/ SteadyPropertiesChanged
    \/ SteadyMainPropertiesChanged

\* a process that handles signal after signal on a bus that stays as it is
SpecHistory == InitHistory /\ [][NextHistory]_vars

---------------------------------------------------------------------------
(* One tracked player, selected by its exact name, that changes its        *)
(* properties a few times and then stays as it is.  Each change sends a    *)
(* PropertiesChanged signal; the signals are handled in the order sent;    *)
(* every bus call succeeds and Properties.Get returns the player's state   *)
(* at the time of the call.                                                *)

MetadataBody(m) == Body(TRUE, Some("Metadata"), TRUE, m[1], m[2], None)

InitSettle ==
    /\ names = <<[name |-> Vlc, owner |-> ":1.10"]>>
    /\ opts \in {o \in Options : o.mediaplayer = <<"v", "l", "c">>}
    /\ last = Handled("nobody", "", NoBody, NoSignal, Nothing)
    /\ alive = TRUE
    /\ earlier = NoEarlier
    /\ player = Player("Stopped", <<Some(<<"Boards of Canada", "Eno">>), Some("Roygbiv")>>,
                       <<>>, None, 0)
    /\ matching = NoMatching
    /\ resolving = NoResolving

\* the player starts, pauses, stops
StatusChanged ==
    /\ player.changes < MaxChanges
    /\ \E s \in Statuses \ {player.status} :
         player' = [player EXCEPT !.status = s,
                                  !.pending = Append(@, Body(TRUE, Some("PlaybackStatus"), TRUE,
                                                             None, None, Some(s))),
                                  !.changes = @ + 1]
    /\ UNCHANGED <<names, opts, last, alive, matching, resolving, earlier>>

\* the player goes to another track
MetadataChanged ==
    /\ player.changes < MaxChanges
    /\ \E m \in Tracks \ {player.track} :
         player' = [player EXCEPT !.track = m,
                                  !.pending = Append(@, MetadataBody(m)),
                                  !.changes = @ + 1]
    /\ UNCHANGED <<names, opts, last, alive, matching, resolving, earlier>>

\* the reply of the player to the Properties.Get call of an outcome
PlayerReply(reads) ==
    IF reads = <<>> THEN NoReply
    ELSE IF reads[1].property = "PlaybackStatus"
         THEN Reply(TRUE, TRUE, player.status, None, None)
         ELSE Reply(TRUE, TRUE, "", player.track[1], player.track[2])

\* what is on display once an outcome is written
Shown(outcome) == IF outcome.out = <<>> THEN player.shown ELSE Some(outcome.out[1])

\* conn.process delivers the player's next signal to the closure built on message.rs
PlayerPropertiesChanged ==
    /\ alive
    /\ last.by \in {"nobody", "message.properties"}
    /\ player.pending # <<>>
    /\ LET ids == Answers(query_id(names, opts.mediaplayer))
           sender == ":1.10"
           body == Head(player.pending)
           probe == properties_changed(ids, opts, sender, body, NoReply, TRUE)
           outcome == properties_changed(ids, opts, sender, body, PlayerReply(probe.reads), TRUE)
       IN  /\ last' = Handled("message.properties", sender, body, NoSignal, outcome)
           /\ alive' = ~outcome.panicked
           /\ player' = [player EXCEPT !.pending = Tail(@), !.shown = Shown(outcome)]
    /\ UNCHANGED <<names, opts, matching, resolving, earlier>>

\* conn.process delivers the player's next signal to the closure of main.rs
PlayerMainPropertiesChanged ==
    /\ alive
    /\ last.by \in {"nobody", "main.properties"}
    /\ player.pending # <<>>
    /\ LET ids == Answers(main_query_id(names, opts.mediaplayer))
           sender == ":1.10"
           body == Head(player.pending)
           probe == main_properties_changed(ids, opts, sender, body, NoReply, TRUE)
           outcome == main_properties_changed(ids, opts, sender, body,
                                              PlayerReply(probe.reads), TRUE)
       IN  /\ last' = Handled("main.properties", sender, body, NoSignal, outcome)
           /\ alive' = ~outcome.panicked
           /\ player' = [player EXCEPT !.pending = Tail(@), !.shown = Shown(outcome)]
    /\ UNCHANGED <<names, opts, matching, resolving, earlier>>

NextSettle ==
    \/ StatusChanged
    \/ MetadataChanged
    \/ PlayerPropertiesChanged
    \/ PlayerMainPropertiesChanged

\* a process that follows one player
SpecSettle == InitSettle /\ [][NextSettle]_vars

---------------------------------------------------------------------------
(* Vocabulary of the properties: they speak of the signal handled last.    *)

PropertiesHandled == last.by \in {"message.properties", "main.properties"}

NameOwnerHandled == last.by = "main.nameowner"

\* the owner the handler resolved from the selector (its first resolution)
TrackedOwner == IF last.res = <<>> THEN None ELSE last.res[1]

FromTracked == is_some(TrackedOwner) /\ last.sender = TrackedOwner[1]

FromForeign == is_some(TrackedOwner) /\ last.sender # TrackedOwner[1]

StatusBody(s) == Body(TRUE, Some("PlaybackStatus"), TRUE, None, None, Some(s))

CarriesStatus == \E s \in Statuses : last.body = StatusBody(s)

CarriesMetadata == last.body.decodable /\ last.body.key = Some("Metadata") /\ last.body.cast

\* the one Properties.Get call succeeded and its reply could be read
CompletionSucceeded ==
    Len(last.reads) = 1 /\ last.reads[1].reply.ok /\ last.reads[1].reply.readable

\* exactly one command, cmd, sent to the tracked owner
OneCommandToTracked(cmd) ==
    /\ Len(last.cmds) = 1
    /\ last.cmds[1].to = TrackedOwner[1]
    /\ last.cmds[1].cmd = cmd

\* the other player's playback state as far as the handler can know it:
\* carried by the signal, or read from the sender
ForeignState ==
    IF CarriesStatus THEN last.body.status[1]
    ELSE IF CompletionSucceeded /\ last.reads[1].property = "PlaybackStatus"
         THEN last.reads[1].reply.status
         ELSE "unresolved"

\* the session made of the half the signal carries and the half read
CompletedSession ==
    IF last.reads[1].property = "PlaybackStatus"
    THEN Media(unwrap_or_default(first(unwrap_or_default_vec(last.body.artist))),
               unwrap_or_default(last.body.title),
               last.reads[1].reply.status)
    ELSE Media(unwrap_or_default(first(unwrap_or_default_vec(last.reads[1].reply.artist))),
               unwrap_or_default(last.reads[1].reply.title),
               unwrap_or_default(last.body.status))

\* the vacated or taken name is an MPRIS name that matches the selector
SignalNameMatches ==
    /\ starts_with(last.signal.name, MprisPrefix)
    /\ matches_pattern(opts.mediaplayer, trim_start_matches(last.signal.name, MprisPrefix))

---------------------------------------------------------------------------
(* C1 - Autotoggle arbitration.  With autotoggle on and a tracked owner T  *)
(* resolved from the selector, a PropertiesChanged signal from another     *)
(* sender F that carries PlaybackStatus = Playing makes the handler send   *)
(* exactly one command, Pause, to T; nothing is sent to F and nothing is   *)
(* emitted.                                                                *)
C1_ForeignPlayingPausesTracked ==
    (PropertiesHandled /\ opts.autotoggle /\ FromForeign
        /\ last.body = StatusBody("Playing"))
    => /\ OneCommandToTracked("Pause")
       /\ \A i \in 1..Len(last.cmds) : last.cmds[i].to # last.sender
       /\ last.out = <<>>

C1_Witness ==
    /\ last.by = "message.properties" /\ opts.autotoggle /\ FromForeign
    /\ last.body = StatusBody("Playing")
    /\ OneCommandToTracked("Pause")

(* C2 - With autotoggle on and a tracked owner T resolved, a signal from   *)
(* another sender (a metadata or status payload) whose playback state is   *)
(* anything but Playing - Paused, Stopped, or not obtained - makes the     *)
(* handler send Play to T.                                                 *)
C2_ForeignNotPlayingResumesTracked ==
    (PropertiesHandled /\ opts.autotoggle /\ FromForeign
        /\ (CarriesStatus \/ CarriesMetadata)
        /\ ForeignState # "Playing")
    => OneCommandToTracked("Play")

(* C3 - A signal from a sender that is not the tracked one does nothing    *)
(* (no emission, no clear, no command) when autotoggle is off, and when no *)
(* tracked owner can be resolved from the selector.                        *)
C3_ForeignIgnoredWithoutAutotoggle ==
    (PropertiesHandled /\ opts.mediaplayer # <<>> /\ ~FromTracked
        /\ (~opts.autotoggle \/ ~is_some(TrackedOwner)))
    => last.out = <<>> /\ last.cmds = <<>> /\ ~last.panicked

(* C4 - Ownership-exit clearing.  With a non-empty selector, a             *)
(* NameOwnerChanged signal without a new owner, for a name that matches    *)
(* the selector under matches_pattern (globs such as vlc* included),       *)
(* yields exactly one clear.                                               *)
C4_MatchingExitClears ==
    (NameOwnerHandled /\ opts.mediaplayer # <<>> /\ last.signal.decodable
        /\ last.signal.old_name # "" /\ last.signal.new_name = ""
        /\ SignalNameMatches)
    => last.out = <<Clear>>

(* C5 - With an empty selector every NameOwnerChanged signal (a player     *)
(* leaving or appearing) does nothing: no emission, no clear, no command.  *)
C5_EmptySelectorIgnoresOwnership ==
    (NameOwnerHandled /\ opts.mediaplayer = <<>>)
    => last.out = <<>> /\ last.cmds = <<>> /\ last.reads = <<>> /\ ~last.panicked

C5_Witness ==
    /\ NameOwnerHandled /\ opts.mediaplayer = <<>>
    /\ last.signal.decodable /\ last.signal.name = Vlc
    /\ last.signal.old_name # "" /\ last.signal.new_name = ""
    /\ last.out = <<>>

(* C6 - When a new owner appears for a name that does not match the        *)
(* selector, with autotoggle on and a tracked owner T on the bus, handling *)
(* the NameOwnerChanged signal reads the new owner's PlaybackStatus and    *)
(* sends exactly one command to T (Pause if it is Playing, Play            *)
(* otherwise), and emits nothing.                                          *)
C6_NewOwnerArbitrated ==
    [][ (/\ last' # last
         /\ last'.by = "main.nameowner"
         /\ opts.autotoggle
         /\ last'.signal.decodable
         /\ last'.signal.new_name # ""
         /\ starts_with(last'.signal.name, MprisPrefix)
         /\ ~matches_pattern(opts.mediaplayer,
                             trim_start_matches(last'.signal.name, MprisPrefix))
         /\ is_some(query_id(names, opts.mediaplayer)))
        => (/\ Len(last'.reads) = 1
            /\ last'.reads[1].target = last'.signal.new_name
            /\ last'.reads[1].property = "PlaybackStatus"
            /\ Len(last'.cmds) = 1
            /\ last'.cmds[1].to = query_id(names, opts.mediaplayer)[1]
            /\ last'.out = <<>>) ]_vars

(* C7 - A signal whose sender is the owner resolved from the selector, and *)
(* whose completion read succeeds, yields exactly one emission: the        *)
(* session made of the half the signal carries and the half read from the  *)
(* sender; no command is sent.                                             *)
C7_TrackedSignalEmitsCompletedSession ==
    (PropertiesHandled /\ opts.mediaplayer # <<>> /\ FromTracked /\ CompletionSucceeded)
    => last.out = <<CompletedSession>> /\ last.cmds = <<>>

(* C8 - Every session handed on for display is complete: it went through a *)
(* completion read that succeeded, and its playback status is not the      *)
(* empty string left by a failed or unreadable status read.                *)
C8_EmittedSessionsComplete ==
    \A i \in 1..Len(last.out) :
        last.out[i].kind = "session"
        => CompletionSucceeded /\ last.out[i].playbackstatus # ""

(* C9 - Nothing that happens at run time aborts the event loop: whatever   *)
(* the signal and the outcomes of the bus calls, the handler returns and   *)
(* the process lives on to handle the next signal.                         *)
C9_LoopNeverAborts == alive /\ ~last.panicked

(* C10 - If the completion read for a signal from the tracked player       *)
(* fails, times out or returns a reply that cannot be read (for            *)
(* PlaybackStatus or for Metadata), the signal is skipped: nothing is      *)
(* emitted and the read is not repeated.                                   *)
C10_FailedCompletionSkipsSignal ==
    (PropertiesHandled /\ (opts.mediaplayer = <<>> \/ FromTracked)
        /\ Len(last.reads) >= 1 /\ ~CompletionSucceeded)
    => last.out = <<>> /\ Len(last.reads) = 1 /\ ~last.panicked

---------------------------------------------------------------------------
(* The pattern forms of the Identity Matcher, and what each is to match,   *)
(* stated by decomposition of the name.                                    *)

\* non-empty text without a wildcard
IsText(t) == Len(t) > 0 /\ \A i \in 1..Len(t) : t[i] # "*"

IsInfixForm(p) ==
    Len(p) >= 3 /\ p[1] = "*" /\ p[Len(p)] = "*" /\ IsText(SubSeq(p, 2, Len(p) - 1))

IsPrefixForm(p) == Len(p) >= 2 /\ p[Len(p)] = "*" /\ IsText(SubSeq(p, 1, Len(p) - 1))

IsSuffixForm(p) == Len(p) >= 2 /\ p[1] = "*" /\ IsText(SubSeq(p, 2, Len(p)))

IsSupportedForm(p) == IsText(p) \/ IsInfixForm(p) \/ IsPrefixForm(p) \/ IsSuffixForm(p)

HasWildcard(p) == \E i \in 1..Len(p) : p[i] = "*"

\* n = x \o t \o y for some x and y
Surrounds(n, t) ==
    \E i \in 0..Len(n), j \in 0..Len(n) :
        i <= j /\ n = SubSeq(n, 1, i) \o t \o SubSeq(n, j + 1, Len(n))

\* n = t \o y for some y
Begins(n, t) == \E j \in 0..Len(n) : n = t \o SubSeq(n, j + 1, Len(n))

\* n = x \o t for some x
Ends(n, t) == \E i \in 0..Len(n) : n = SubSeq(n, 1, i) \o t

ReferenceMatches(p, n) ==
    IF IsText(p) THEN p = n
    ELSE IF IsInfixForm(p) THEN Surrounds(n, SubSeq(p, 2, Len(p) - 1))
    ELSE IF IsPrefixForm(p) THEN Begins(n, SubSeq(p, 1, Len(p) - 1))
    ELSE IF IsSuffixForm(p) THEN Ends(n, SubSeq(p, 2, Len(p)))
    ELSE FALSE

(* C11 - The bare wildcard matches no player: matches_pattern("*", n) is   *)
(* false for every name n.                                                 *)
C11_BareWildcardMatchesNothing ==
    (matching.returned /\ matching.mediaplayer = <<"*">>) => ~matching.result

(* C12 - The empty pattern matches everything: matches_pattern("", n) is   *)
(* true for every name n.                                                  *)
C12_EmptyPatternMatchesAll ==
    (matching.returned /\ matching.mediaplayer = <<>>) => matching.result

(* C12, as the code has it - matches_pattern("", n) is true only for the   *)
(* empty name; that the empty selector takes every sender is the doing of  *)
(* is_mediaplayer, which returns true for it whatever the sender and       *)
(* whatever the bus would resolve.                                         *)
C12_EmptySelectorAcceptedByIsMediaplayer ==
    (matching.returned /\ matching.mediaplayer = <<>>)
    => /\ matching.result <=> (matching.sender = <<>>)
       /\ \A id \in {None} \cup {Some(t) : t \in Tokens}, sender \in Tokens :
             /\ is_mediaplayer(id, sender, matching.mediaplayer)
             /\ main_is_mediaplayer(id, sender, matching.mediaplayer)

C12_Witness ==
    /\ matching.returned /\ matching.mediaplayer = <<>>
    /\ matching.sender = <<"a", "b">> /\ ~matching.result

(* C13 - A pattern that holds a '*' in any form but one leading and/or one *)
(* trailing '*' around non-empty text (a*b, a*b*, *a*b, **, ...) matches   *)
(* no name.                                                                *)
C13_UnsupportedFormsMatchNothing ==
    (matching.returned /\ HasWildcard(matching.mediaplayer)
        /\ ~IsSupportedForm(matching.mediaplayer))
    => ~matching.result

(* C14 - On the supported forms matches_pattern agrees with the reference: *)
(* *t* matches the names that contain t, t* those that start with t, *t    *)
(* those that end with t, and non-empty text without a wildcard matches    *)
(* the name equal to it, case included.                                    *)
C14_SupportedFormsAgreeWithReference ==
    (matching.returned /\ IsSupportedForm(matching.mediaplayer))
    => (matching.result <=> ReferenceMatches(matching.mediaplayer, matching.sender))

C14_Witness ==
    /\ matching.returned
    /\ matching.mediaplayer = <<"*", "a", "*">>
    /\ matching.sender = <<"b", "a", "b">>
    /\ matching.result

---------------------------------------------------------------------------
(* The owner resolution, stated on the names as the bus listed them.       *)

\* the i-th listed name is an MPRIS name that matches the selector once its
\* namespace prefix is taken off
IsCandidate(i) ==
    /\ starts_with(resolving.listed[i].name, MprisPrefix)
    /\ matches_pattern(resolving.mediaplayer,
                       SubSeq(resolving.listed[i].name, Len(MprisPrefix) + 1,
                              Len(resolving.listed[i].name)))

\* the owner lookup for the i-th listed name
Lookup(i) == GetNameOwner(resolving.bus, resolving.listed[i].name)

IsFirstCandidate(i) == IsCandidate(i) /\ \A j \in 1..(i - 1) : ~IsCandidate(j)

(* C15 - query_id considers only the listed names under the MPRIS          *)
(* namespace, matches each with the prefix taken off, and returns the      *)
(* owner of the first matching name in the order of the listing: when the  *)
(* lookup of the first match succeeds its owner is the result, and any     *)
(* result is the owner of a matching name.                                 *)
C15_FirstMatchingNameResolved ==
    resolving.returned
    => /\ \A i \in 1..Len(resolving.listed) :
             (IsFirstCandidate(i) /\ is_some(Lookup(i))) => resolving.result = Lookup(i)
       /\ is_some(resolving.result)
             => \E i \in 1..Len(resolving.listed) :
                    IsCandidate(i) /\ resolving.result = Lookup(i)

(* C16 - query_id finds nothing when no listed name matches the selector,  *)
(* and also when the owner lookup for the first matching name fails (the   *)
(* player left between the listing and the lookup): then no owner token    *)
(* is returned.                                                            *)
C16_NotFoundWhenFirstLookupFails ==
    resolving.returned
    => /\ (\A i \in 1..Len(resolving.listed) : ~IsCandidate(i))
             => resolving.result = None /\ resolving.main_result = None
       /\ \A i \in 1..Len(resolving.listed) :
             (IsFirstCandidate(i) /\ ~is_some(Lookup(i)))
             => resolving.result = None /\ resolving.main_result = None

---------------------------------------------------------------------------
(* What it is to treat the sender as the tracked player.                   *)

\* the payload names one half of a session, fully
ValidPayload ==
    \/ CarriesStatus
    \/ CarriesMetadata /\ is_some(last.body.artist) /\ is_some(last.body.title)

\* both halves are there in full: the payload's, and the one read
CompleteEvent ==
    /\ CompletionSucceeded
    /\ IF CarriesStatus
       THEN /\ is_some(last.reads[1].reply.artist)
            /\ last.reads[1].reply.artist[1] # <<>>
            /\ is_some(last.reads[1].reply.title)
       ELSE /\ CarriesMetadata
            /\ is_some(last.body.artist) /\ last.body.artist[1] # <<>>
            /\ is_some(last.body.title)

\* the other half is read from the sender, the session is emitted when both
\* halves are there, and no command is sent
TreatedAsTracked ==
    /\ last.cmds = <<>>
    /\ ValidPayload => Len(last.reads) = 1 /\ last.reads[1].target = last.sender
    /\ CompleteEvent => last.out = <<CompletedSession>>

\* the owner of the tracked name on the bus as it is now, as the handler's
\* own resolver finds it
ResolvedNow ==
    IF last.by = "message.properties"
    THEN query_id(names, opts.mediaplayer)
    ELSE main_query_id(names, opts.mediaplayer)

HandledWithCurrentOwner ==
    (PropertiesHandled /\ opts.mediaplayer # <<>>)
    => /\ TrackedOwner = ResolvedNow
       /\ (is_some(ResolvedNow) /\ last.sender = ResolvedNow[1]) => TreatedAsTracked
       /\ ~(is_some(ResolvedNow) /\ last.sender = ResolvedNow[1]) => last.out = <<>>

(* C17 - No owner token is kept from one signal to the next: each          *)
(* PropertiesChanged signal is handled with the owner the tracked name has *)
(* on the bus at that time.  Once the name has passed from T1 to T2, a     *)
(* signal from T2 is treated as the tracked player's and emitted, and a    *)
(* signal from T1 is not emitted.                                          *)
C17_OwnerResolvedForEachSignal == [][last' # last => HandledWithCurrentOwner']_vars

C17_Witness ==
    /\ PropertiesHandled
    /\ GetNameOwner(names, Vlc) = Some(":1.50")
    /\ last.sender = ":1.50" /\ TrackedOwner = Some(":1.50")
    /\ CompleteEvent /\ last.out = <<CompletedSession>>

(* C18 - With an empty selector a PropertiesChanged signal from any sender *)
(* is adopted as the tracked player's: its other half is read from the     *)
(* sender and the session emitted, no owner is resolved to tell it         *)
(* foreign, and no Play/Pause is sent, with autotoggle on or off.          *)
C18_EmptySelectorAdoptsSender ==
    (PropertiesHandled /\ opts.mediaplayer = <<>>)
    => last.res = <<>> /\ TreatedAsTracked

C18_Witness ==
    /\ PropertiesHandled /\ opts.mediaplayer = <<>> /\ opts.autotoggle
    /\ names # <<>> /\ last.sender \notin owners(names)
    /\ CompleteEvent /\ last.out = <<CompletedSession>> /\ last.cmds = <<>>

(* C19 - With autotoggle on and a tracked owner T resolved, a signal from  *)
(* another sender F that carries only Metadata is completed by reading     *)
(* F's PlaybackStatus, and the same rule applies: Pause to T if the state  *)
(* read is Playing, Play to T otherwise; the signal is not dropped.        *)
C19_ForeignMetadataCompletedThenArbitrated ==
    (PropertiesHandled /\ opts.autotoggle /\ FromForeign /\ CarriesMetadata)
    => /\ Len(last.reads) = 1
       /\ last.reads[1].target = last.sender
       /\ last.reads[1].property = "PlaybackStatus"
       /\ OneCommandToTracked(IF CompletionSucceeded /\ last.reads[1].reply.status = "Playing"
                              THEN "Pause" ELSE "Play")
       /\ last.out = <<>>

(* C20 - A Metadata reply without the artist list, without the title, or   *)
(* without both does not fail the completion: the session is emitted all   *)
(* the same, with an empty value for each missing field and the status     *)
(* the signal carries.                                                     *)
C20_MissingMetadataFieldsTolerated ==
    (PropertiesHandled /\ (opts.mediaplayer = <<>> \/ FromTracked)
        /\ CarriesStatus /\ CompletionSucceeded
        /\ last.reads[1].property = "Metadata"
        /\ (~is_some(last.reads[1].reply.artist) \/ ~is_some(last.reads[1].reply.title)))
    => last.out = <<CompletedSession>> /\ ~last.panicked

---------------------------------------------------------------------------
(* C21 - When the metadata, carried by the signal or read from the player, *)
(* lists several artists, the artist of the emitted session is the first   *)
(* of the list, on the path of a Metadata signal and on the path of a      *)
(* PlaybackStatus signal.                                                  *)
C21_FirstArtistEmitted ==
    \A i \in 1..Len(last.out) :
        (last.out[i].kind = "session" /\ Len(last.reads) = 1)
        => /\ (CarriesMetadata /\ is_some(last.body.artist) /\ Len(last.body.artist[1]) > 1)
                 => last.out[i].artist = last.body.artist[1][1]
           /\ (CarriesStatus /\ is_some(last.reads[1].reply.artist)
                 /\ Len(last.reads[1].reply.artist[1]) > 1)
                 => last.out[i].artist = last.reads[1].reply.artist[1][1]

C21_Witness ==
    /\ PropertiesHandled /\ CarriesStatus /\ CompletionSucceeded
    /\ last.reads[1].reply.artist = Some(<<"Boards of Canada", "Eno">>)
    /\ Len(last.out) = 1 /\ last.out[1].artist = "Boards of Canada"

---------------------------------------------------------------------------
(* C23 - A PropertiesChanged signal whose payload is neither Metadata nor  *)
(* PlaybackStatus (a key that is not recognized, or a recognized key with  *)
(* a value of the wrong shape) is ignored: no emission, no command, no     *)
(* Properties.Get call, and the loop goes on.                              *)
C23_UnrecognizedPayloadIgnored ==
    (PropertiesHandled /\ last.body.decodable
        /\ (last.body.key \notin {Some("Metadata"), Some("PlaybackStatus")} \/ ~last.body.cast))
    => /\ last.out = <<>> /\ last.cmds = <<>> /\ last.reads = <<>>
       /\ ~last.panicked /\ alive

C23_Witness ==
    /\ PropertiesHandled /\ last.body = Body(TRUE, Some("Volume"), FALSE, None, None, None)
    /\ opts.autotoggle /\ FromForeign
    /\ last.out = <<>> /\ last.cmds = <<>> /\ last.reads = <<>> /\ alive

---------------------------------------------------------------------------
(* C26 - A NameOwnerChanged signal clears the output only if it has no new *)
(* owner and the vacated name, its namespace prefix taken off, matches the *)
(* selector under matches_pattern: the exit of a player that does not      *)
(* match, the exit of a name outside the MPRIS namespace, and a signal     *)
(* with a new owner never clear.                                           *)
C26_ClearOnlyForMatchingExit ==
    (NameOwnerHandled /\ last.out # <<>>)
    => /\ last.signal.decodable
       /\ last.signal.new_name = ""
       /\ SignalNameMatches

---------------------------------------------------------------------------
(* C27 - Handling one signal hands on at most one output (a session or a   *)
(* clear) and sends at most one Play/Pause command, and never both.        *)
C27_AtMostOneEffect ==
    /\ Len(last.out) <= 1
    /\ Len(last.cmds) <= 1
    /\ ~(last.out # <<>> /\ last.cmds # <<>>)

C27_Witness ==
    /\ last.by = "main.properties" /\ FromForeign
    /\ Len(last.cmds) = 1 /\ last.out = <<>>

---------------------------------------------------------------------------
\* the owners of the MPRIS names on the bus that match the selector
MatchingOwners ==
    { names[i].owner : i \in { j \in 1..Len(names) :
          /\ starts_with(names[j].name, MprisPrefix)
          /\ matches_pattern(opts.mediaplayer,
                             trim_start_matches(names[j].name, MprisPrefix)) } }

(* C25 - With a glob selector and two or more players on the bus whose     *)
(* names match it, a PropertiesChanged signal from any of them is treated  *)
(* as the selected player's: it is completed from its sender and emitted,  *)
(* and no Pause or Play command is sent to another matching player.        *)
C25_AnyMatchingPlayerSelected ==
    [][ (/\ last' # last
         /\ last'.by = "message.properties"
         /\ HasWildcard(opts.mediaplayer)
         /\ Cardinality(MatchingOwners) >= 2
         /\ last'.sender \in MatchingOwners)
        => TreatedAsTracked' ]_vars

---------------------------------------------------------------------------
(* C24 - A Play or Pause command is never sent to the sender of the        *)
(* PropertiesChanged signal that caused it, whatever names appear, vanish  *)
(* or change owner between the owner resolutions the handler makes for     *)
(* that signal.                                                            *)
C24_CommandNeverToSender ==
    PropertiesHandled => \A i \in 1..Len(last.cmds) : last.cmds[i].to # last.sender

---------------------------------------------------------------------------
\* is_mediaplayer held for the signal handled last
Accepted == opts.mediaplayer = <<>> \/ FromTracked

---------------------------------------------------------------------------
\* the session that describes the player as it is
CurrentSession ==
    Media(unwrap_or_default(first(unwrap_or_default_vec(player.track[1]))),
          unwrap_or_default(player.track[2]),
          player.status)

(* C28 - The output settles on the player's state.  With an exact selector *)
(* that resolves to one player whose owner stays, signals handled in the   *)
(* order sent and every bus call succeeding: once the player has stopped   *)
(* changing and every PropertiesChanged signal it sent has been handled,   *)
(* the session emitted last is the player's current (first artist, title,  *)
(* playback status).                                                       *)
C28_OutputSettlesOnPlayerState ==
    (PropertiesHandled /\ player.pending = <<>>)
    => player.shown = Some(CurrentSession)

====
